---- MODULE Spec2Model ----
(***************************************************************************)
(* A model of mcgrp.py, the Minecraft card resource-pack generator.        *)
(*                                                                         *)
(* Text (file names, output names) is modelled as sequences of             *)
(* one-character strings, so that splitext, the regular-expression         *)
(* substitution and lower() are computed character by character.           *)
(***************************************************************************)
EXTENDS Integers, Sequences, FiniteSets, TLC

VARIABLES
    \* ---- main(): configuration and the directory listing
    listing,        \* os.listdir('images'), in the order the OS yields it
    mode,           \* "id" or "name"
    start_id,
    use_pngquant,
    \* ---- main(): program state
    pc,             \* position in main(), or in the function under study
    image_files,    \* the list main() iterates over
    idx,            \* 1-based position of the for loop in image_files
    current_id,
    texture_count,
    name_mapping,   \* insertion-ordered dict: sequence of [key, original, clean_name]
    has_back,
    tmpl,           \* MODEL_TEMPLATE["textures"], the dict every model_data shares
    desc_pos,       \* position of the descriptor loop
    \* ---- main(): the files on disk
    produced,       \* texture files written, in order: [src, name, by]
    items,          \* items/<name>.json written (set of names)
    models,         \* models/item/<name>.json written: [name, slot0, slot1, particle]
    manifest,       \* pack.mcmeta written
    \* ---- main(): what happened to each source file
    fault,          \* file -> the fault its processing meets ("unseen" before)
    assigned,       \* file -> the output name given to it by the naming step
    \* ---- a single function under study
    args,           \* its arguments
    result          \* what it returned / left behind

vars == << listing, mode, start_id, use_pngquant, pc, image_files, idx,
           current_id, texture_count, name_mapping, has_back, tmpl, desc_pos,
           produced, items, models, manifest, fault, assigned, args, result >>

mainVars == << listing, mode, start_id, use_pngquant, image_files, idx,
               current_id, texture_count, name_mapping, has_back, tmpl,
               desc_pos, produced, items, models, manifest, fault, assigned >>

(***************************************************************************)
(* Bounds of the model                                                     *)
(***************************************************************************)
MaxLen == 3         \* longest stem of a file name given to sanitize_filename alone
MaxFiles == 2       \* most entries in images/
MaxW == 2           \* widest cropped image given to process_image_cv2
MaxH == 1802        \* tallest cropped image given to process_image_cv2

(***************************************************************************)
(* Characters and strings                                                  *)
(***************************************************************************)
LowerLetters == {"a", "b", "c", "e", "k", "p", "n", "g", "j", "m", "y", "t", "x"}
UpperLetters == {"A", "B", "C", "G", "K", "M", "N", "P"}
Digits == <<"0", "1", "2", "3", "4", "5", "6", "7", "8", "9">>
DigitSet == {Digits[i] : i \in 1..10}

\* str.lower() on one character
LowerChar(c) ==
    CASE c = "A" -> "a"
      [] c = "B" -> "b"
      [] c = "C" -> "c"
      [] c = "K" -> "k"
      [] c = "G" -> "g"
      [] c = "M" -> "m"
      [] c = "N" -> "n"
      [] c = "P" -> "p"
      [] OTHER -> c

\* str.lower()
Lower(s) == [i \in 1..Len(s) |-> LowerChar(s[i])]

\* the class \w alone, as in re.sub(r"[^\w]", "", ...): the hyphen goes too
WordOnly(c) == c \in LowerLetters \cup UpperLetters \cup DigitSet \cup {"_"}

\* the regular-expression class [\w-]: what re.sub(r"[^\w-]", "", ...) keeps
WordOrHyphen(c) == c \in LowerLetters \cup UpperLetters \cup DigitSet \cup {"_", "-"}

\* os.path.splitext(p)[0]: cut at the last dot, unless only dots precede it
splitext_root(p) ==
    LET dots == {i \in 1..Len(p) : p[i] = "."}
        dotIndex == IF dots = {} THEN 0
                    ELSE CHOOSE i \in dots : \A j \in dots : j <= i
    IN  IF dotIndex > 0 /\ \E i \in 1..(dotIndex - 1) : p[i] # "."
        THEN SubSeq(p, 1, dotIndex - 1)
        ELSE p

PngExt == <<".", "p", "n", "g">>

\* sanitize_filename(filename)
sanitize_filename(filename) ==
    LET name == splitext_root(filename)
        replaced == [i \in 1..Len(name) |-> IF name[i] = " " THEN "_" ELSE name[i]]
        clean_name == SelectSeq(replaced, WordOrHyphen)
    IN  Lower(clean_name \o PngExt)

\* str(n) for n >= 0
RECURSIVE Str(_)
Str(n) == IF n < 10 THEN << Digits[n + 1] >>
          ELSE Str(n \div 10) \o << Digits[(n % 10) + 1] >>

\* s.endswith(suffix)
EndsWith(s, suffix) ==
    /\ Len(s) >= Len(suffix)
    /\ SubSeq(s, Len(s) - Len(suffix) + 1, Len(s)) = suffix

(***************************************************************************)
(* sanitize_filename on its own                                            *)
(***************************************************************************)
\* valid_ext, the extensions main() accepts
JpgExt == <<".", "j", "p", "g">>
JpegExt == <<".", "j", "p", "e", "g">>
valid_ext == {PngExt, JpgExt, JpegExt}

\* the characters of the stems tried: letters of both cases, a digit, the
\* underscore, the hyphen, the space, the dot and one more punctuation mark
Alphabet == {"a", "B", "1", "_", "-", " ", ".", "#"}

RECURSIVE StringsUpTo(_)
StringsUpTo(n) ==
    IF n = 0 THEN { <<>> }
    ELSE LET shorter == StringsUpTo(n - 1)
         IN  shorter \cup { Append(s, c) : s \in {t \in shorter : Len(t) = n - 1},
                                           c \in Alphabet }

NoMain ==
    /\ listing = <<>> /\ mode = "id" /\ start_id = 1 /\ use_pngquant = FALSE
    /\ image_files = <<>> /\ idx = 1 /\ current_id = 1 /\ texture_count = 0
    /\ name_mapping = <<>> /\ has_back = FALSE /\ tmpl = <<>> /\ desc_pos = 1
    /\ produced = <<>> /\ items = {} /\ models = {} /\ manifest = FALSE
    /\ fault = <<>> /\ assigned = <<>>

InitSanitize ==
    /\ NoMain
    /\ pc = "sanitize"
    /\ args \in { [filename |-> stem \o ext] :
                    stem \in StringsUpTo(MaxLen), ext \in valid_ext }
    /\ result = [once |-> <<>>, twice |-> <<>>]

\* sanitize the file name, then sanitize the name that came out
Sanitize ==
    /\ pc = "sanitize"
    /\ result' = [once  |-> sanitize_filename(args.filename),
                  twice |-> sanitize_filename(sanitize_filename(args.filename))]
    /\ pc' = "returned"
    /\ UNCHANGED << mainVars, args >>

SpecSanitize == InitSanitize /\ [][Sanitize]_vars

\* C7: sanitize_filename is idempotent on its own outputs, for every file
\* name over the alphabet, also when the stem sanitizes to the empty string.
C7_Idempotent ==
    pc = "returned" => result.twice = result.once

(***************************************************************************)
(* save_image_png                                                          *)
(***************************************************************************)
MaxQuality == 100   \* compress is clamped into 0..MaxQuality

Max(a, b) == IF a >= b THEN a ELSE b

\* round(256 * quality / 100): to the nearest integer (no value is a tie)
pillow_colors_round(quality) == Max(2, (256 * quality + 50) \div 100)

\* pillow_colors = max(2, int(256 * quality / 100)): int() truncates
pillow_colors(quality) == Max(2, (256 * quality) \div 100)

\* the exit codes of the optimizer tried: optimized, no improvement, failure
ReturnCodes == {0, 98, 99}

\* where an exception is raised inside save_image_png's try block
\*   "convert"  building img_pil (lines 84-90), before temp_path is bound
\*   "quantize" split/convert/quantize/putalpha (lines 96-101)
\*   "write"    img.save(temp_path, ...), the file already created
\*   "run"      subprocess.run (the executable is missing, the platform has
\*              no CREATE_NO_WINDOW); reached only with use_pngquant
\*   "replace"  os.replace(temp_path, path)
SaveFaults == {"none", "convert", "quantize", "write", "run", "replace"}

\* save_image_png(img_np, path, quality, use_pngquant, colors), given the
\* optimizer's exit code and the fault the call meets.  Returns
\*   dest    a file was written at path
\*   temp    a file remains at path + ".tmp.png"
\*   raised  an exception left the function (from the except block itself)
\*   colors  the number of colors the quantizer was asked for (0: not asked)
save_image_png(quality, pngquant, returncode, flt) ==
    LET asked == IF quality < 100 THEN pillow_colors(quality) ELSE 0
        \* the except block: os.path.exists(temp_path), then os.remove
        swallowed(c) == [dest |-> FALSE, temp |-> FALSE, raised |-> FALSE, colors |-> c]
        done(c) == [dest |-> TRUE, temp |-> FALSE, raised |-> FALSE, colors |-> c]
    IN  IF flt = "convert"
        THEN \* temp_path is not bound yet: the except block raises NameError
             [dest |-> FALSE, temp |-> FALSE, raised |-> TRUE, colors |-> 0]
        ELSE IF flt = "quantize" /\ quality < 100 THEN swallowed(asked)
        ELSE IF flt = "write" THEN swallowed(asked)
        ELSE IF pngquant
             THEN IF flt = "run" THEN swallowed(asked)
                  ELSE IF returncode \notin {0, 98}
                       THEN IF flt = "replace" THEN swallowed(asked) ELSE done(asked)
                       ELSE done(asked)   \* os.remove(temp_path); the tool wrote path
             ELSE IF flt = "replace" THEN swallowed(asked) ELSE done(asked)

InitSave ==
    /\ NoMain
    /\ pc = "save_image_png"
    /\ args \in [quality : 0..MaxQuality, use_pngquant : BOOLEAN,
                 returncode : ReturnCodes, fault : SaveFaults]
    /\ result = [dest |-> FALSE, temp |-> FALSE, raised |-> FALSE, colors |-> 0]

SaveImagePng ==
    /\ pc = "save_image_png"
    /\ result' = save_image_png(args.quality, args.use_pngquant,
                                args.returncode, args.fault)
    /\ pc' = "returned"
    /\ UNCHANGED << mainVars, args >>

SpecSave == InitSave /\ [][SaveImagePng]_vars

\* C6: whenever save_image_png finishes, by any exit path, no file remains
\* at the temporary path and the cleanup itself does not raise.
C6_TempCleaned ==
    pc = "returned" => (~result.temp /\ ~result.raised)

\* C8 (as claimed): for 0 <= q < 100 the quantizer is asked for
\* max(2, round(256 * q / 100)) colors.
C8_Round ==
    (pc = "returned" /\ args.quality < 100 /\ result.colors # 0)
        => result.colors = pillow_colors_round(args.quality)

\* C8 (amended): for 0 <= q < 100 the quantizer is asked for
\* max(2, floor(256 * q / 100)) colors: the greatest integer n with
\* 100 * n <= 256 * q, and 2 when that is below 2.
C8_Floor ==
    (pc = "returned" /\ args.quality < 100 /\ result.colors # 0)
        => /\ result.colors >= 2
           /\ result.colors > 2 =>
                /\ 100 * result.colors <= 256 * args.quality
                /\ 100 * (result.colors + 1) > 256 * args.quality
           /\ result.colors = 2 => 256 * args.quality < 300

\* a call with q < 100 whose quotient has a fraction of a half or more, where
\* rounding and truncation differ, has asked the quantizer
C8_Witness ==
    /\ pc = "returned"
    /\ args.quality < 100
    /\ result.colors > 2
    /\ 100 * result.colors + 50 <= 256 * args.quality

(***************************************************************************)
(* process_image_cv2                                                       *)
(***************************************************************************)
target_w == 650
target_h == 900

\* int(x * scale) for the exact product num / den: the floating-point
\* product of an exactly integral value may fall just below it
IntOfProduct(num, den) ==
    IF num % den = 0 THEN {num \div den - 1, num \div den} \cap Nat
    ELSE {num \div den}

\* new_size = (int(w * scale), int(h * scale)), scale = min(650 / w, 900 / h)
new_size(w, h) ==
    IF target_w * h <= target_h * w
    THEN IntOfProduct(w * target_w, w) \X IntOfProduct(h * target_w, w)
    ELSE IntOfProduct(w * target_h, h) \X IntOfProduct(h * target_h, h)

\* process_image_cv2 on a cropped image of w x h: the possible outcomes.
\* cv2.resize raises when a side of the requested size is 0.
process_image_cv2(w, h, autofit) ==
    IF autofit
    THEN { [raised |-> FALSE, width |-> target_w, height |-> target_h,
            new_w |-> target_w, new_h |-> target_h] }
    ELSE { IF ns[1] < 1 \/ ns[2] < 1
           THEN [raised |-> TRUE, width |-> 0, height |-> 0,
                 new_w |-> ns[1], new_h |-> ns[2]]
           ELSE [raised |-> FALSE, width |-> target_w, height |-> target_h,
                 new_w |-> ns[1], new_h |-> ns[2]]
           : ns \in new_size(w, h) }

InitFit ==
    /\ NoMain
    /\ pc = "process_image_cv2"
    /\ args \in [w : 1..MaxW, h : 1..MaxH, autofit : BOOLEAN]
    /\ result = [raised |-> FALSE, width |-> 0, height |-> 0, new_w |-> 0, new_h |-> 0]

ProcessImage ==
    /\ pc = "process_image_cv2"
    /\ result' \in process_image_cv2(args.w, args.h, args.autofit)
    /\ pc' = "returned"
    /\ UNCHANGED << mainVars, args >>

SpecFit == InitFit /\ [][ProcessImage]_vars

\* C9: for every cropped input of w >= 1 by h >= 1 and both values of
\* autofit, process_image_cv2 returns a buffer of exactly 650x900; in
\* letterbox mode the scaled size lies in 1..650 by 1..900.
C9_ExactSize ==
    pc = "returned" =>
        /\ ~result.raised
        /\ result.width = target_w /\ result.height = target_h
        /\ ~args.autofit => /\ 1 <= result.new_w /\ result.new_w <= target_w
                            /\ 1 <= result.new_h /\ result.new_h <= target_h

(***************************************************************************)
(* main()                                                                  *)
(***************************************************************************)
\* the entries images/ may hold
F_back == <<"b", "a", "c", "k", ".", "p", "n", "g">>            \* back.png
F_Back == <<"B", "a", "c", "k", ".", "j", "p", "g">>            \* Back.jpg
F_bang == <<"b", "a", "c", "k", "!", ".", "p", "n", "g">>       \* back!.png
F_hyph == <<"b", "a", "c", "k", "-", ".", "p", "n", "g">>       \* back-.png
F_card == <<"M", "y", " ", "1", ".", "P", "N", "G">>            \* My 1.PNG
F_text == <<"x", ".", "t", "x", "t">>                           \* x.txt
Entries == {F_back, F_Back, F_bang, F_hyph, F_card, F_text}

\* the start_id values tried (the second makes the counter gain a digit)
StartIds == {1, 9}

\* compress in default_config
compress_quality == 100

Back == <<"b", "a", "c", "k">>
back_name == Back \o PngExt
NoName == <<>>

\* os.path.splitext(f)[0].lower() == 'back'
IsBackFile(f) == Lower(splitext_root(f)) = Back

\* f.lower().endswith(valid_ext)
IsImageFile(f) == \E ext \in valid_ext : EndsWith(Lower(f), ext)

\* list.remove(x): drop the first occurrence
RemoveFirst(seq, x) ==
    LET at == CHOOSE i \in 1..Len(seq) : seq[i] = x /\ \A j \in 1..(i - 1) : seq[j] # x
    IN  SubSeq(seq, 1, at - 1) \o SubSeq(seq, at + 1, Len(seq))

\* save_image_png's first line: path = os.path.splitext(path)[0] + ".png"
texture_path(output_name) == splitext_root(output_name) \o PngExt

\* the faults an image can meet on its way through the pipeline
Faults == {"load", "process"} \cup SaveFaults

\* what becomes of an image that meets fault flt, the optimizer exiting rc:
\*   "load", "process"  load_image / process_image_cv2 raised
\*   "raised"           save_image_png raised
\*   "swallowed"        save_image_png caught its failure; no file written
\*   "written"          the texture file was written
Fate(flt, rc, pngquant) ==
    IF flt \in {"load", "process"} THEN flt
    ELSE LET r == save_image_png(compress_quality, pngquant, rc, flt)
         IN  IF r.raised THEN "raised"
             ELSE IF r.dest THEN "written" ELSE "swallowed"

\* an image meets the same fault each time it is processed
SameFate(f, fate) == fault[f] \in {"unseen", fate}

\* sequences of distinct entries, of length n
RECURSIVE Listings(_)
Listings(n) ==
    IF n = 0 THEN { <<>> }
    ELSE { Append(l, e) : l \in Listings(n - 1), e \in Entries }

Distinct(l) == \A i, j \in 1..Len(l) : i # j => l[i] # l[j]

TemplateTextures == [slot0 |-> Back, slot1 |-> <<"{texture_id}">>, particle |-> Back]

Init ==
    /\ listing \in UNION { {l \in Listings(n) : Distinct(l)} : n \in 0..MaxFiles }
    /\ mode \in {"id", "name"}
    /\ start_id \in StartIds
    /\ use_pngquant \in BOOLEAN
    /\ name_mapping = <<>>
    /\ current_id = start_id
    /\ has_back = FALSE
    /\ image_files = SelectSeq(listing, IsImageFile)
    /\ pc = "back"
    /\ idx = 1
    /\ texture_count = 0
    /\ tmpl = TemplateTextures
    /\ desc_pos = 1
    /\ produced = <<>>
    /\ items = {}
    /\ models = {}
    /\ manifest = FALSE
    /\ fault = [f \in Entries |-> "unseen"]
    /\ assigned = [f \in Entries |-> NoName]
    /\ args = <<>>
    /\ result = <<>>

\* the position main() is at once the back step is over
AfterBack(files) == IF Len(files) = 0 THEN "json" ELSE "loop"

\* lines 219-241: the back step
BackStep ==
    /\ pc = "back"
    /\ LET back_files == SelectSeq(image_files, IsBackFile)
       IN  IF Len(back_files) > 0
           THEN LET back_source == back_files[1]
                IN  \E flt \in Faults, rc \in ReturnCodes :
                      LET fate == Fate(flt, rc, use_pngquant)
                      IN  /\ fault' = [fault EXCEPT ![back_source] = fate]
                          /\ IF fate \in {"load", "process", "raised"}
                             THEN \* except Exception: only a message
                                  /\ UNCHANGED << image_files, has_back, produced >>
                                  /\ pc' = AfterBack(image_files)
                             ELSE /\ produced' =
                                        IF fate = "written"
                                        THEN Append(produced,
                                                 [src |-> back_source,
                                                  name |-> texture_path(back_name),
                                                  by |-> "back"])
                                        ELSE produced
                                  /\ image_files' = RemoveFirst(image_files, back_source)
                                  /\ has_back' = TRUE
                                  /\ pc' = AfterBack(image_files')
           ELSE /\ UNCHANGED << image_files, has_back, produced, fault >>
                /\ pc' = AfterBack(image_files)
    /\ UNCHANGED << listing, mode, start_id, use_pngquant, idx, current_id,
                    texture_count, name_mapping, tmpl, desc_pos, items, models,
                    manifest, assigned, args, result >>

\* name_mapping[key] = {...}: a new key goes last, an old one keeps its place
DictPut(dict, key, original, clean_name) ==
    LET entry == [key |-> key, original |-> original, clean_name |-> clean_name]
    IN  IF \E i \in 1..Len(dict) : dict[i].key = key
        THEN [i \in 1..Len(dict) |-> IF dict[i].key = key THEN entry ELSE dict[i]]
        ELSE Append(dict, entry)

\* the for loop with its try/except: where main() is after the image at
\* position i of n, whether or not its processing raised
AfterImageAbort(raisedExc, i, n) ==
    IF raisedExc THEN "aborted" ELSE IF i < n THEN "loop" ELSE "json"

AfterImage(raisedExc, i, n) == IF i < n THEN "loop" ELSE "json"

\* lines 247-274: one iteration of the loop over image_files
LoopStep ==
    /\ pc = "loop"
    /\ idx <= Len(image_files)
    /\ LET filename == image_files[idx]
       IN  \E flt \in Faults, rc \in ReturnCodes :
             LET fate == Fate(flt, rc, use_pngquant)
                 output_name == IF mode = "id" THEN Str(current_id) \o PngExt
                                ELSE sanitize_filename(filename)
             IN  /\ SameFate(filename, fate)
                 /\ fault' = [fault EXCEPT ![filename] = fate]
                 /\ IF fate \in {"load", "process"}
                    THEN UNCHANGED << current_id, name_mapping, assigned,
                                      produced, texture_count >>
                    ELSE /\ IF mode = "id"
                            THEN /\ current_id' = current_id + 1
                                 /\ UNCHANGED name_mapping
                            ELSE /\ name_mapping' =
                                       DictPut(name_mapping, output_name, filename,
                                               splitext_root(output_name))
                                 /\ UNCHANGED current_id
                         /\ assigned' = [assigned EXCEPT ![filename] = output_name]
                         /\ produced' =
                               IF fate = "written"
                               THEN Append(produced,
                                        [src |-> filename,
                                         name |-> texture_path(output_name),
                                         by |-> "card"])
                               ELSE produced
                         /\ texture_count' =
                               IF fate = "raised" THEN texture_count
                               ELSE texture_count + 1
                 /\ pc' = AfterImage(fate \in {"load", "process", "raised"},
                                     idx, Len(image_files))
    /\ idx' = idx + 1
    /\ UNCHANGED << listing, mode, start_id, use_pngquant, image_files, has_back,
                    tmpl, desc_pos, items, models, manifest, args, result >>

\* the names the descriptor loop runs over: range(start_id, start_id +
\* texture_count) in id mode, name_mapping.values() in name mode
ModelNames ==
    IF mode = "id"
    THEN [i \in 1..texture_count |-> Str(start_id + i - 1)]
    ELSE [i \in 1..Len(name_mapping) |-> name_mapping[i].clean_name]

\* lines 307-312: model_data = MODEL_TEMPLATE.copy() is a shallow copy, so
\* model_data["textures"] is the template's own dict t
ModelTextures(t, model_name, back) ==
    IF ~back
    THEN [slot0 |-> model_name, slot1 |-> model_name, particle |-> model_name]
    ELSE [t EXCEPT !.slot1 = model_name]

\* lines 292-316: the item and the model descriptor of one name
Descriptor ==
    /\ pc = "json"
    /\ desc_pos <= Len(ModelNames)
    /\ LET model_name == ModelNames[desc_pos]
           t == ModelTextures(tmpl, model_name, has_back)
       IN  /\ items' = items \cup {model_name}
           /\ tmpl' = t
           /\ models' = {m \in models : m.name # model_name}
                           \cup { [name |-> model_name, slot0 |-> t.slot0,
                                   slot1 |-> t.slot1, particle |-> t.particle] }
    /\ desc_pos' = desc_pos + 1
    /\ UNCHANGED << listing, mode, start_id, use_pngquant, pc, image_files, idx,
                    current_id, texture_count, name_mapping, has_back, produced,
                    manifest, fault, assigned, args, result >>

\* lines 318-322: pack.mcmeta, once the descriptor loop is over
WriteManifest ==
    /\ pc = "json"
    /\ desc_pos > Len(ModelNames)
    /\ manifest' = TRUE
    /\ pc' = "done"
    /\ UNCHANGED << listing, mode, start_id, use_pngquant, image_files, idx,
                    current_id, texture_count, name_mapping, has_back, tmpl,
                    desc_pos, produced, items, models, fault, assigned, args,
                    result >>

Next == BackStep \/ LoopStep \/ Descriptor \/ WriteManifest

Spec == Init /\ [][Next]_vars

(***************************************************************************)
(* Properties of main()                                                    *)
(***************************************************************************)
Listed == {listing[i] : i \in 1..Len(listing)}

\* the texture files the loop over image_files wrote, in order
CardTextures == SelectSeq(produced, LAMBDA t : t.by = "card")

\* a back texture file was written by the back step
BackProduced == \E i \in 1..Len(produced) : produced[i].by = "back"

\* C1: a file of images/ whose base name is "back" (in any case) is never
\* given a sequential id nor an entry of name_mapping.
C1_BackExcluded ==
    \A f \in Listed :
        IsBackFile(f) =>
            /\ assigned[f] = NoName
            /\ \A i \in 1..Len(name_mapping) : name_mapping[i].original # f

\* C2: in id mode current_id is start_id plus the number of textures the
\* loop has produced, and the k-th of them is named start_id + k - 1.
C2_CounterCountsTextures ==
    mode = "id" =>
        /\ current_id = start_id + Len(CardTextures)
        /\ \A k \in 1..Len(CardTextures) :
              CardTextures[k].name = Str(start_id + k - 1) \o PngExt

\* C3: at the end of a run the names with an item descriptor, the names with
\* a model descriptor and the base names of the textures the loop wrote are
\* the same set.
C3_DescriptorsMatchTextures ==
    pc = "done" =>
        LET written == {splitext_root(CardTextures[k].name) : k \in 1..Len(CardTextures)}
        IN  /\ items = written
            /\ {m.name : m \in models} = written

\* C4: in every model descriptor slot 0 is the shared back texture when a
\* back texture file was produced, and is slot 1, the item's own texture,
\* when none was.
C4_Slot0 ==
    \A m \in models :
        /\ BackProduced => m.slot0 = Back
        /\ ~BackProduced => m.slot0 = m.slot1

\* the image went through load, process and encode without a failure
Unfailed(f) == fault[f] = "written"

\* its texture file is on disk
TextureWritten(f) == \E i \in 1..Len(produced) : produced[i].src = f

\* C5: a failing image never aborts the batch: the run always goes on until
\* the manifest is written, and by then every image has been processed and
\* every image that did not itself fail has its texture written.
C5_NoAbort ==
    /\ pc \in {"back", "loop", "json", "done"}
    /\ pc = "loop" => idx <= Len(image_files)
    /\ pc = "done" =>
          /\ manifest
          /\ desc_pos = Len(ModelNames) + 1
          /\ \A f \in Listed :
                IsImageFile(f) =>
                    /\ fault[f] # "unseen"
                    /\ Unfailed(f) => TextureWritten(f)

\* a finished run in which an image failed and a later one was written
C5_Witness ==
    /\ pc = "done"
    /\ \E i, j \in 1..Len(listing) :
          /\ i < j
          /\ fault[listing[i]] \in {"load", "process", "raised", "swallowed"}
          /\ Unfailed(listing[j])
          /\ TextureWritten(listing[j])

\* the base name of f holds only letters, digits, underscores, hyphens and
\* spaces
PlainChars == LowerLetters \cup UpperLetters \cup DigitSet \cup {"_", "-", " "}

KeepsAllChars(f) ==
    LET name == splitext_root(f)
    IN  \A i \in 1..Len(name) : name[i] \in PlainChars

\* C10 (as claimed): in name mode no image whose base name is not "back" is
\* given the output name back.png, none writes the back texture, and no
\* item named "back" is emitted.
C10_BackOnlyByBackStep ==
    mode = "name" =>
        /\ \A f \in Listed : ~IsBackFile(f) => assigned[f] # back_name
        /\ \A i \in 1..Len(produced) :
              (produced[i].name = back_name /\ ~IsBackFile(produced[i].src))
                  => produced[i].by = "back"
        /\ (\A f \in Listed : ~IsBackFile(f)) => Back \notin items

\* C10 (amended): in name mode an image whose base name is not "back" and
\* holds only letters, digits, underscores, hyphens and spaces is never
\* given the output name back.png and never writes the back texture; an
\* item named "back" comes only from an image named "back" or from one whose
\* base name holds another character.
C10_CleanNamesKeepOffBack ==
    mode = "name" =>
        /\ Back \in items => \E f \in Listed : IsBackFile(f) \/ ~KeepsAllChars(f)
        /\ \A f \in Listed :
              (~IsBackFile(f) /\ KeepsAllChars(f)) => assigned[f] # back_name
        /\ \A i \in 1..Len(produced) :
              (~IsBackFile(produced[i].src) /\ KeepsAllChars(produced[i].src))
                  => produced[i].name # back_name

\* a finished run in name mode where the back step wrote back.png and a card
\* with a clean base name other than "back" was named and written
C10_Witness ==
    /\ mode = "name"
    /\ pc = "done"
    /\ \E i \in 1..Len(produced) :
          produced[i].by = "back" /\ produced[i].name = back_name
    /\ \E i \in 1..Len(produced) :
          /\ produced[i].by = "card"
          /\ ~IsBackFile(produced[i].src)
          /\ KeepsAllChars(produced[i].src)
          /\ assigned[produced[i].src] = produced[i].name

====
